---- MODULE Spec2Model ----
(***************************************************************************)
(* textwolf XML printer (textwolf/xmlprinter.hpp).                         *)
(*                                                                         *)
(* The printing object XMLPrinterObject::This is modelled as a state       *)
(* machine over its output state, its tag stack and the caller's output    *)
(* buffer.  Characters are Unicode scalars, buffers are sequences of       *)
(* bytes; the application character set is UTF-8 and so is the output      *)
(* character set of the printing object modelled here.                     *)
(***************************************************************************)
EXTENDS Integers, Sequences, FiniteSets, TLC

(***************************************************************************)
(* Bounds of the model.                                                    *)
(***************************************************************************)
\* number of print calls in one run
MaxOps == 5
\* length, in characters, of the values given to the escaping functions
MaxValLen == 2

(***************************************************************************)
(* Character codes used by the printer.                                    *)
(***************************************************************************)
ChLt == 60
ChGt == 62
ChSlash == 47
ChSpace == 32
ChEq == 61
ChQuot == 34

\* a null pointer entry of a substitution table (an estr[] slot without initialiser)
NullStr == <<-1>>

(***************************************************************************)
(* charset::UTF8 and TextScanner<CStringIterator,UTF8>: the decoding of    *)
(* the source string and the encoding of the output.                       *)
(***************************************************************************)
\* CStringIterator: the byte at position i, 0 after the end of the string
ByteAt(src, i) == IF i <= Len(src) THEN src[i] ELSE 0

\* number of bytes of the UTF-8 character starting with byte b
CharLen(b) == IF b < 128 THEN 1 ELSE IF b < 224 THEN 2 ELSE IF b < 240 THEN 3 ELSE 4

\* charset::UTF8::value: the Unicode scalar of the character at position i
CharValue(src, i) ==
    LET b == ByteAt(src, i)
        n == CharLen(b)
    IN  IF n = 1 THEN b
        ELSE IF n = 2 THEN (b % 32) * 64 + (ByteAt(src, i + 1) % 64)
        ELSE IF n = 3 THEN (b % 16) * 4096 + (ByteAt(src, i + 1) % 64) * 64
                            + (ByteAt(src, i + 2) % 64)
        ELSE (b % 8) * 262144 + (ByteAt(src, i + 1) % 64) * 4096
                            + (ByteAt(src, i + 2) % 64) * 64 + (ByteAt(src, i + 3) % 64)

\* charset::UTF8::print: the bytes of one Unicode scalar
CharsetPrint(ch) ==
    IF ch < 128 THEN <<ch>>
    ELSE IF ch < 2048 THEN <<192 + (ch \div 64), 128 + (ch % 64)>>
    ELSE IF ch < 65536 THEN <<224 + (ch \div 4096), 128 + ((ch \div 64) % 64), 128 + (ch % 64)>>
    ELSE <<240 + (ch \div 262144), 128 + ((ch \div 4096) % 64),
           128 + ((ch \div 64) % 64), 128 + (ch % 64)>>

(***************************************************************************)
(* TagStack (textwolf/xmltagstack.hpp).                                    *)
(***************************************************************************)
TagStackPush(stk, name) == Append(stk, name)

\* top( element, elementsize): true with the topmost name when there is one,
\* false when the stack is empty (the output parameters are then not assigned)
TagStackTop(stk) ==
    IF stk = <<>> THEN [found |-> FALSE, name |-> <<>>]
    ELSE [found |-> TRUE, name |-> stk[Len(stk)]]

\* a pop that removes nothing
TagStackPopKeepsTop(stk) == stk

TagStackPop(stk) == IF stk = <<>> THEN <<>> ELSE SubSeq(stk, 1, Len(stk) - 1)

(***************************************************************************)
(* XMLPrinterObject::This: printing to the buffer.                         *)
(***************************************************************************)
\* printToBuffer( char ch, buf)
printToBufferChr(ch, b) == b \o CharsetPrint(ch)

\* printToBuffer( src, srcsize, buf): the loop  while ((ch = ts.chr()) != 0)
RECURSIVE printToBufferFrom(_, _, _)
printToBufferFrom(src, i, b) ==
    LET ch == CharValue(src, i)
    IN  IF ch = 0 THEN b
        ELSE printToBufferFrom(src, i + CharLen(ByteAt(src, i)), b \o CharsetPrint(ch))

printToBuffer(src, b) == printToBufferFrom(src, 1, b)

\* memchr( echr, ch, nof_echr): index of the first of the nof_echr bytes equal to ch, 0 if none
Memchr(echr, ch, n) ==
    LET hits == {k \in 1..n : echr[k] = ch}
    IN  IF hits = {} THEN 0 ELSE CHOOSE k \in hits : \A j \in hits : k <= j

\* the loop  while (tt[ii]) IOCharset::print( tt[ii++], buf)
RECURSIVE printCStr(_, _, _)
printCStr(tt, ii, b) ==
    IF ii > Len(tt) THEN b ELSE printCStr(tt, ii + 1, b \o CharsetPrint(tt[ii]))

printEsc(ch, b, nof_echr, echr, estr) ==
    LET cc == Memchr(echr, ch, nof_echr)
    IN  IF cc # 0 THEN printCStr(estr[cc], 1, b)
        ELSE b \o CharsetPrint(ch)

RECURSIVE printToBufferSubstChrFrom(_, _, _, _, _, _)
printToBufferSubstChrFrom(src, i, b, nof_echr, echr, estr) ==
    LET ch == CharValue(src, i)
    IN  IF ch = 0 THEN b
        ELSE printToBufferSubstChrFrom(src, i + CharLen(ByteAt(src, i)),
                 IF ch < 128 THEN printEsc(ch, b, nof_echr, echr, estr)
                 ELSE b \o CharsetPrint(ch),
                 nof_echr, echr, estr)

printToBufferSubstChr(src, b, nof_echr, echr, estr) ==
    printToBufferSubstChrFrom(src, 1, b, nof_echr, echr, estr)

\* printToBufferAttributeValue: enum {nof_echr = 12}
AttrNofEchr == 12
\* estr[nof_echr]: "&lt;", "&gt;", "&apos;", "&quot;", "&amp;", "&#0;", "&#8;", "&#9;", "&#10;", "&#13;"
AttrEstr ==
    << <<38, 108, 116, 59>>, <<38, 103, 116, 59>>, <<38, 97, 112, 111, 115, 59>>,
       <<38, 113, 117, 111, 116, 59>>, <<38, 97, 109, 112, 59>>, <<38, 35, 48, 59>>,
       <<38, 35, 56, 59>>, <<38, 35, 57, 59>>, <<38, 35, 49, 48, 59>>,
       <<38, 35, 49, 51, 59>>, NullStr, NullStr >>
\* echr[nof_echr+1] = "<>'\"&\0\b\t\n\r"
AttrEchr == <<60, 62, 39, 34, 38, 0, 8, 9, 10, 13, 0, 0, 0>>

printToBufferAttributeValue(src, b) ==
    printToBufferChr(ChQuot,
        printToBufferSubstChr(src, printToBufferChr(ChQuot, b), AttrNofEchr, AttrEchr, AttrEstr))

\* printToBufferContent: enum {nof_echr = 6}
ContentNofEchr == 6
\* estr[nof_echr]: "&lt;", "&gt;", "&amp;", "&#0;", "&#8;"
ContentEstr ==
    << <<38, 108, 116, 59>>, <<38, 103, 116, 59>>, <<38, 97, 109, 112, 59>>,
       <<38, 35, 48, 59>>, <<38, 35, 56, 59>>, NullStr >>
\* echr[nof_echr+1] = "<>&\0\b"
ContentEchr == <<60, 62, 38, 0, 8, 0, 0>>

printToBufferContent(src, b) ==
    printToBufferSubstChr(src, b, ContentNofEchr, ContentEchr, ContentEstr)

\* "<?xml version=\"1.0\" encoding=\""
HeaderHead ==
    <<60, 63, 120, 109, 108, 32, 118, 101, 114, 115, 105, 111, 110, 61, 34, 49, 46, 48,
      34, 32, 101, 110, 99, 111, 100, 105, 110, 103, 61, 34>>
\* "\" standalone=\"yes\"?>\n"
HeaderTail ==
    <<34, 32, 115, 116, 97, 110, 100, 97, 108, 111, 110, 101, 61, 34, 121, 101, 115, 34,
      63, 62, 10>>

\* printHeader( buf): the buffer after the header (m_state becomes Content)
printHeader(enc, b) ==
    printToBuffer(HeaderTail, printToBuffer(enc, printToBuffer(HeaderHead, b)))

\* an exitTagContext that prints the header whenever a tag context is left
exitTagContextHeaderAgain(st, enc, b) ==
    IF st # "Content"
    THEN printToBufferChr(ChGt, printHeader(enc, b))
    ELSE b

\* exitTagContext( buf): the buffer afterwards (m_state is Content afterwards)
exitTagContext(st, enc, b) ==
    IF st # "Content"
    THEN printToBufferChr(ChGt, IF st = "Init" THEN printHeader(enc, b) ELSE b)
    ELSE b

(***************************************************************************)
(* XMLPrinterObject::This: the print methods.  Each gives the output       *)
(* state, the tag stack and the buffer after the call, and its result.     *)
(***************************************************************************)
Result(st, stk, b, r) == [state |-> st, stack |-> stk, buf |-> b, ret |-> r]

\* variant of printOpenTag that does not leave the tag context first
printOpenTagKeepsContext(st, stk, enc, b, src) ==
    Result("TagElement",
           TagStackPush(stk, src),
           printToBuffer(src, printToBufferChr(ChLt, b)),
           TRUE)

printOpenTag(st, stk, enc, b, src) ==
    Result("TagElement",
           TagStackPush(stk, src),
           printToBuffer(src, printToBufferChr(ChLt, exitTagContext(st, enc, b))),
           TRUE)

\* variant of printAttribute that does not test the output state
printAttributeAnyState(st, stk, enc, b, src) ==
    Result("TagAttribute", stk,
           printToBufferChr(ChEq, printToBuffer(src, printToBufferChr(ChSpace, b))),
           TRUE)

printAttribute(st, stk, enc, b, src) ==
    IF st = "TagElement"
    THEN Result("TagAttribute", stk,
                printToBufferChr(ChEq, printToBuffer(src, printToBufferChr(ChSpace, b))),
                TRUE)
    ELSE Result(st, stk, b, FALSE)

printValue(st, stk, enc, b, src) ==
    IF st = "TagAttribute"
    THEN Result("TagElement", stk,
                printToBufferAttributeValue(src, printToBufferChr(ChSpace, b)),
                TRUE)
    ELSE Result("Content", stk,
                printToBufferContent(src, exitTagContext(st, enc, b)),
                FALSE)

\* cltag, cltagsize are assigned by top() only when it finds an element; otherwise
\* they keep the indeterminate contents of the uninitialised locals (undef)
printCloseTag(st, stk, b, undef) ==
    LET t == TagStackTop(stk)
        cltag == IF t.found THEN t.name ELSE undef
        cltagsize == Len(cltag)
    IN  IF t.found \/ cltagsize = 0 THEN Result(st, stk, b, FALSE)
        ELSE IF st = "TagElement"
        THEN Result("Content", TagStackPop(stk),
                    printToBufferChr(ChGt, printToBufferChr(ChSlash, b)), TRUE)
        ELSE IF st # "Content" THEN Result(st, stk, b, FALSE)
        ELSE Result(st, TagStackPop(stk),
                    printToBufferChr(ChGt,
                        printToBuffer(cltag,
                            printToBufferChr(ChSlash, printToBufferChr(ChLt, b)))),
                    TRUE)

\* ---------------------------------------------------------------------------
\* XMLPrinterBase::parseEncoding and the dispatch of XMLPrinter::createPrinter
\* ---------------------------------------------------------------------------
ChHyphen == 45

\* ::tolower in the "C" locale
ToLower(c) == IF c >= 65 /\ c <= 90 THEN c + 32 ELSE c

\* the loop of parseEncoding: control characters, spaces and hyphens are skipped,
\* every other character is appended in lower case
RECURSIVE parseEncodingFrom(_, _, _)
parseEncodingFrom(src, i, dest) ==
    IF i > Len(src) THEN dest
    ELSE IF src[i] <= ChSpace THEN parseEncodingFrom(src, i + 1, dest)
    ELSE IF src[i] = ChHyphen THEN parseEncodingFrom(src, i + 1, dest)
    ELSE parseEncodingFrom(src, i + 1, Append(dest, ToLower(src[i])))

\* a parseEncoding that keeps the hyphens
parseEncodingKeepsHyphen(src) ==
    LET kept == SelectSeq(src, LAMBDA c : c > ChSpace)
    IN  [i \in 1..Len(kept) |-> ToLower(kept[i])]

parseEncoding(src) == parseEncodingFrom(src, 1, <<>>)

\* the encoding names createPrinter compares with
NameIsoLatin == <<105, 115, 111, 108, 97, 116, 105, 110>>
NameIso8859 == <<105, 115, 111, 56, 56, 53, 57>>
NameUtf8 == <<117, 116, 102, 56>>
NameUtf16 == <<117, 116, 102, 49, 54>>
NameUtf16be == <<117, 116, 102, 49, 54, 98, 101>>
NameUtf16le == <<117, 116, 102, 49, 54, 108, 101>>
NameUcs2 == <<117, 99, 115, 50>>
NameUcs2be == <<117, 99, 115, 50, 98, 101>>
NameUcs2le == <<117, 99, 115, 50, 108, 101>>
NameUcs4 == <<117, 99, 115, 52>>
NameUcs4be == <<117, 99, 115, 52, 98, 101>>
NameUcs4le == <<117, 99, 115, 52, 108, 101>>

\* std::memcmp(a, lit, n) == 0 for a string literal lit: the first n bytes of a
\* against the literal followed by its terminating NUL. a is a parseEncoding
\* result and holds no NUL, so a comparison longer than the literal has differed
\* at the terminating NUL at the latest and no byte behind it decides the result.
MemcmpEqual(a, lit, n) ==
    LET litz == lit \o <<0>>
    IN  n <= Len(litz) /\ \A i \in 1..n : ByteAt(a, i) = litz[i]

\* a dispatch that falls back to UTF-8 for an unknown name
IOCharsetDefaultsToUTF8(enc) ==
    IF \/ Len(enc) >= 8 /\ MemcmpEqual(enc, NameIsoLatin, Len(enc))
       \/ Len(enc) >= 7 /\ MemcmpEqual(enc, NameIso8859, Len(enc))
    THEN "IsoLatin1"
    ELSE IF enc = NameUtf16 \/ enc = NameUtf16be THEN "UTF16BE"
    ELSE IF enc = NameUtf16le THEN "UTF16LE"
    ELSE IF enc = NameUcs2 \/ enc = NameUcs2be THEN "UCS2BE"
    ELSE IF enc = NameUcs2le THEN "UCS2LE"
    ELSE IF enc = NameUcs4 \/ enc = NameUcs4be THEN "UCS4BE"
    ELSE IF enc = NameUcs4le THEN "UCS4LE"
    ELSE "UTF8"

\* the IOCharset createPrinter instantiates the printing object with for the
\* normalised encoding name enc, "none" where it returns false
IOCharset(enc) ==
    IF \/ Len(enc) >= 8 /\ MemcmpEqual(enc, NameIsoLatin, Len(enc))
       \/ Len(enc) >= 7 /\ MemcmpEqual(enc, NameIso8859, Len(enc))
    THEN "IsoLatin1"
    ELSE IF Len(enc) = 0 \/ enc = NameUtf8 THEN "UTF8"
    ELSE IF enc = NameUtf16 \/ enc = NameUtf16be THEN "UTF16BE"
    ELSE IF enc = NameUtf16le THEN "UTF16LE"
    ELSE IF enc = NameUcs2 \/ enc = NameUcs2be THEN "UCS2BE"
    ELSE IF enc = NameUcs2le THEN "UCS2LE"
    ELSE IF enc = NameUcs4 \/ enc = NameUcs4be THEN "UCS4BE"
    ELSE IF enc = NameUcs4le THEN "UCS4LE"
    ELSE "none"

\* XMLPrinter::createPrinter on the members obj (m_obj) and mt (m_mt) with the
\* declared encoding: an object held is deleted, then a new one is made for the
\* charset of the encoding and the method table is filled by create(). The
\* function returns false for an unknown name; on the other branches control
\* flows off its end and the value the caller sees is undef.
createPrinter(obj, mt, declared, undef) ==
    LET cs == IOCharset(parseEncoding(declared))
    IN  IF cs = "none"
        THEN [m_obj |-> "null", m_mt |-> mt, created |-> 0, ret |-> FALSE]
        ELSE [m_obj |-> cs, m_mt |-> cs, created |-> 1, ret |-> undef]

\* the bytes of ASCII text in the IOCharset cs of the printing object
IOCharsetChr(cs, c) ==
    CASE cs \in {"UTF8", "IsoLatin1"} -> <<c>>
      [] cs \in {"UTF16BE", "UCS2BE"} -> <<0, c>>
      [] cs \in {"UTF16LE", "UCS2LE"} -> <<c, 0>>
      [] cs = "UCS4BE" -> <<0, 0, 0, c>>
      [] cs = "UCS4LE" -> <<c, 0, 0, 0>>

RECURSIVE IOCharsetText(_, _)
IOCharsetText(cs, text) ==
    IF text = <<>> THEN <<>>
    ELSE IOCharsetChr(cs, Head(text)) \o IOCharsetText(cs, Tail(text))

\* ---------------------------------------------------------------------------
\* XMLScanner: the state machine that reads a document and gives one event per
\* advance. Documents here hold no header (<?...?>) and no <!...> section.
\* ---------------------------------------------------------------------------
ChAmp == 38
ChApos == 39
ChSemicolon == 59

IsSpace(c) == c \in {9, 10, 13, 32}
\* characters of names: letters, digits, '_', ':', '-', '.', and non-ASCII
IsNameChr(c) == c \in (48..57) \cup (65..90) \cup (97..122) \cup {95, 58, 45, 46} \/ c >= 128

\* the predefined entities lt, gt, amp, apos, quot and their characters
EntityNames == {<<108, 116>>, <<103, 116>>, <<97, 109, 112>>, <<97, 112, 111, 115>>,
                <<113, 117, 111, 116>>}
\* a table with the characters of lt and gt exchanged
EntityChrExchanged(name) ==
    CASE name = <<108, 116>> -> ChGt
      [] name = <<103, 116>> -> ChLt
      [] name = <<97, 109, 112>> -> ChAmp
      [] name = <<97, 112, 111, 115>> -> ChApos
      [] name = <<113, 117, 111, 116>> -> ChQuot

EntityChr(name) ==
    CASE name = <<108, 116>> -> ChLt
      [] name = <<103, 116>> -> ChGt
      [] name = <<97, 109, 112>> -> ChAmp
      [] name = <<97, 112, 111, 115>> -> ChApos
      [] name = <<113, 117, 111, 116>> -> ChQuot

\* scanner members: state id, position in the source, tag stack, the token
\* accumulated, the quote of the attribute value being read, the entity name
\* being read and the state to go back to behind it, the error message; eom
\* tells that the source has a hook to call at its end instead of giving 0
XMLScannerStart ==
    [state |-> "Start", pos |-> 1, stack |-> <<>>, acc |-> <<>>, quote |-> 0,
     ent |-> <<>>, back |-> "Start", err |-> "", eom |-> FALSE]

\* an event: its type and content; an ErrorOccurred event carries the message
Item(xs, kind, content) == [xs |-> xs, type |-> kind, content |-> content, msg |-> ""]
\* an error after which the scanner goes on behind the character
ErrorItemResumes(xs, msg) ==
    [xs |-> [xs EXCEPT !.state = "Start", !.pos = @ + 1, !.acc = <<>>],
     type |-> "ErrorOccurred", content |-> <<>>, msg |-> msg]

ErrorItem(xs, msg) ==
    [xs |-> [xs EXCEPT !.state = "Error", !.err = msg, !.acc = <<>>],
     type |-> "ErrorOccurred", content |-> <<>>, msg |-> msg]

\* a scanner that expects the next attribute name right behind the '='
AttribNameNextSkipsValue == "AfterOpenName"

\* the state behind the '=' that ends an attribute name
AttribNameNext == "ExpectAttribValue"

\* a close tag check that accepts every name
closeTagAlwaysMatches(stk, name) == TRUE

\* the name of a close tag against the top of the tag stack, byte for byte
closeTagMatches(stk, name) == TagStackTop(stk).found /\ TagStackTop(stk).name = name

\* one advance of the scanner over src: the members afterwards and the event;
\* Suspended is no event: the hook of the source was called at its end, the
\* members are as they were when the character was asked for
RECURSIVE nextItem(_, _)
nextItem(src, xs) ==
    LET c == ByteAt(src, xs.pos)
        skip == [xs EXCEPT !.pos = @ + 1]
        take == [xs EXCEPT !.pos = @ + 1, !.acc = Append(@, c)]
        to(st) == [xs EXCEPT !.state = st, !.pos = @ + 1, !.acc = <<>>]
        entity == nextItem(src, [xs EXCEPT !.state = "Entity", !.back = xs.state,
                                           !.pos = @ + 1, !.ent = <<>>])
    IN  IF xs.state = "Exit" THEN Item(xs, "Exit", <<>>)
        ELSE IF xs.state = "Error" THEN ErrorItem(xs, xs.err)
        ELSE IF xs.pos > Len(src) /\ xs.eom THEN Item(xs, "Suspended", <<>>)
        ELSE
        CASE xs.state = "Start" ->
                IF c = 0
                THEN IF xs.stack = <<>> THEN Item([xs EXCEPT !.state = "Exit"], "Exit", <<>>)
                     ELSE ErrorItem(xs, "UnclosedDocument")
                ELSE IF c = ChLt THEN nextItem(src, to("TagOpenFirst"))
                ELSE IF IsSpace(c) THEN nextItem(src, skip)
                ELSE nextItem(src, [xs EXCEPT !.state = "Content", !.acc = <<>>])
          [] xs.state = "Content" ->
                IF c = 0 \/ c = ChLt
                THEN Item([xs EXCEPT !.state = "Start", !.acc = <<>>], "Content", xs.acc)
                ELSE IF c = ChAmp THEN entity
                ELSE nextItem(src, take)
          [] xs.state = "TagOpenFirst" ->
                IF c = ChSlash THEN nextItem(src, to("CloseTagName"))
                ELSE IF IsNameChr(c)
                THEN nextItem(src, [xs EXCEPT !.state = "OpenTagName", !.acc = <<>>])
                ELSE ErrorItem(xs, "UnexpectedCharacter")
          [] xs.state = "OpenTagName" ->
                IF IsNameChr(c) THEN nextItem(src, take)
                ELSE IF IsSpace(c) \/ c = ChGt \/ c = ChSlash
                THEN Item([xs EXCEPT !.state = IF c = ChGt THEN "Start" ELSE "AfterOpenName",
                                     !.pos = IF c = ChSlash THEN @ ELSE @ + 1,
                                     !.stack = TagStackPush(@, xs.acc),
                                     !.acc = <<>>],
                          "OpenTag", xs.acc)
                ELSE ErrorItem(xs, "UnexpectedCharacter")
          [] xs.state = "AfterOpenName" ->
                IF IsSpace(c) THEN nextItem(src, skip)
                ELSE IF IsNameChr(c)
                THEN nextItem(src, [xs EXCEPT !.state = "AttribName", !.acc = <<>>])
                ELSE IF c = ChSlash
                THEN Item([xs EXCEPT !.state = "ExpectAngleClose", !.pos = @ + 1,
                                     !.stack = TagStackPop(@), !.acc = <<>>],
                          "CloseTagIm", <<>>)
                ELSE IF c = ChGt THEN nextItem(src, to("Start"))
                ELSE ErrorItem(xs, "UnexpectedCharacter")
          [] xs.state = "ExpectAngleClose" ->
                IF c = ChGt THEN nextItem(src, to("Start"))
                ELSE ErrorItem(xs, "UnexpectedCharacter")
          [] xs.state = "AttribName" ->
                IF IsNameChr(c) THEN nextItem(src, take)
                ELSE IF c = ChEq
                THEN Item(to(AttribNameNext), "TagAttribName", xs.acc)
                ELSE ErrorItem(xs, "UnexpectedCharacter")
          [] xs.state = "ExpectAttribValue" ->
                IF c = ChQuot \/ c = ChApos
                THEN nextItem(src, [xs EXCEPT !.state = "AttribValue", !.pos = @ + 1,
                                              !.acc = <<>>, !.quote = c])
                ELSE IF IsSpace(c) THEN nextItem(src, skip)
                ELSE ErrorItem(xs, "UnexpectedCharacter")
          [] xs.state = "AttribValue" ->
                IF c = 0 THEN ErrorItem(xs, "UnexpectedCharacter")
                ELSE IF c = xs.quote
                THEN Item(to("AfterOpenName"), "TagAttribValue", xs.acc)
                ELSE IF c = ChAmp THEN entity
                ELSE nextItem(src, take)
          [] xs.state = "Entity" ->
                IF IsNameChr(c)
                THEN nextItem(src, [xs EXCEPT !.pos = @ + 1, !.ent = Append(@, c)])
                ELSE IF c = ChSemicolon /\ xs.ent \in EntityNames
                THEN nextItem(src, [xs EXCEPT !.state = xs.back, !.pos = @ + 1,
                                              !.acc = Append(@, EntityChr(xs.ent)),
                                              !.ent = <<>>])
                ELSE ErrorItem(xs, "UnknownEntity")
          [] xs.state = "CloseTagName" ->
                IF IsNameChr(c) THEN nextItem(src, take)
                ELSE IF c = ChGt
                THEN IF closeTagMatches(xs.stack, xs.acc)
                     THEN Item([xs EXCEPT !.state = "Start", !.pos = @ + 1,
                                          !.stack = TagStackPop(@), !.acc = <<>>],
                               "CloseTag", xs.acc)
                     ELSE ErrorItem(xs, "TagMismatch")
                ELSE ErrorItem(xs, "UnexpectedCharacter")

(***************************************************************************)
(* The state machine.                                                      *)
(***************************************************************************)
VARIABLES
    encoding,     \* m_attributes.getEncoding(): the encoding declared by the caller
    m_state,      \* output state
    m_tagstack,   \* tag name stack of open tags
    buf,          \* the caller's output buffer
    ret,          \* result of the last print call
    call,         \* the last print call: operation, argument and the state it started in
    opened,       \* the elements opened and not yet closed by a successful printCloseTag
    nops,         \* number of print calls made
    val,          \* escaping functions: the value given (characters)
    out,          \* escaping functions: the bytes printed for it, <<-2>> before the call
    fn,           \* escaping functions: the one called, "none" before the call
    ident,        \* encoding names: an identifier in its plain spelling
    spelled,      \* encoding names: the same identifier respelled
    nresp,        \* encoding names: number of respellings made
    dest,         \* encoding names: results of parseEncoding for both spellings
    selected,     \* encoding names: charsets createPrinter selects for both spellings
    m_obj,        \* XMLPrinter: the printing object, "null" or the IOCharset it was made for
    m_mt,         \* XMLPrinter: the method table, "unset" or the IOCharset of its methods
    ncreate,      \* XMLPrinter: number of printing objects created
    forwarded,    \* XMLPrinter: the last print call went to the printing object
    document,     \* XMLScanner: the document read, as a sequence of tokens
    xs,           \* XMLScanner: the members of the scanner
    events,       \* XMLScanner: the events given so far
    reparsed,     \* round trip: the events of the printed document
    source,       \* chunked source: where the input is split, the part being read,
                  \* whether it has a hook, whether the scanner is suspended
    other,        \* XMLPrinter: the printer copy-constructed from this one
    lifecycle,    \* XMLPrinter: destroyed, crashed, the null entry called
    selector,     \* XMLPathSelect: the state of the path selection
    delivered     \* XMLPathSelect: the matches the caller got from the iterator

\* the printing object with the history of its calls, and the rest
printerVars == <<encoding, m_state, m_tagstack, buf, ret, call, opened, nops>>
valueVars == <<val, out, fn>>
encVars == <<ident, spelled, nresp, dest, selected>>
wrapperVars == <<m_obj, m_mt, ncreate, forwarded, other, lifecycle>>
scanVars == <<document, xs, events, reparsed, source, selector, delivered>>
vars == <<printerVars, valueVars, encVars, wrapperVars, scanVars>>

\* the variables a specification leaves alone
notPrinterVars == <<valueVars, encVars, scanVars>>
notValueVars == <<printerVars, encVars, wrapperVars, scanVars>>
notEncVars == <<printerVars, valueVars, wrapperVars, scanVars>>
notScanVars == <<printerVars, valueVars, encVars, wrapperVars>>

\* tag and attribute names given by the caller: "a", "b"
Names == {<<97>>, <<98>>}
\* values given by the caller: "x", "<\""
Values == {<<120>>, <<60, 34>>}
\* declared encodings: "UTF-8", "utf8"
Encodings == {<<85, 84, 70, 45, 56>>, <<117, 116, 102, 56>>}
\* contents an uninitialised cltag/cltagsize pair may have: size 0, or one byte "?"
Indeterminate == {<<>>, <<63>>}
NotCalled == <<-2>>

\* the start of a call; prev is the call made before it, without its own prev
NoPrev == [op |-> "none", arg |-> <<>>, state |-> "Init", stack |-> <<>>, buf |-> <<>>,
           ret |-> TRUE]
NoCall == [op |-> "none", arg |-> <<>>, state |-> "Init", stack |-> <<>>, buf |-> <<>>,
           opened |-> <<>>, prev |-> NoPrev]

\* parseEncoding and createPrinter before they are called
NoDest == [called |-> FALSE, plain |-> <<>>, respelled |-> <<>>, again |-> <<>>]
NoSelected == [called |-> FALSE, plain |-> "none", respelled |-> "none"]

\* ---------------------------------------------------------------------------
\* XMLPathSelect: the runtime of the path selection, fed with the events of the
\* scanner. The automaton holds attribute selections of elements of the root.
\* ---------------------------------------------------------------------------
\* the expressions in the order they were assigned:
\* (*atm)["a"]("k") = 1; (*atm)["a"]("s") = 2; (*atm)["a"]("k") = 3
PathExpressions ==
    <<[tag |-> <<97>>, attr |-> <<107>>, type |-> 1],
      [tag |-> <<97>>, attr |-> <<115>>, type |-> 2],
      [tag |-> <<97>>, attr |-> <<107>>, type |-> 3]>>

\* the runtime after construction: no element open, no match to drain
XMLPathSelectStart == [path |-> <<>>, attr |-> <<>>, results |-> <<>>, npush |-> 0]

\* the matches of an event, one per expression that selects it, in the order of
\* the expressions; each holds the type assigned and the content of the event
pathMatches(sel, type, content) ==
    LET hit(e) == /\ type = "TagAttribValue"
                  /\ sel.path = <<e.tag>>
                  /\ sel.attr = e.attr
        hits == SelectSeq(PathExpressions, hit)
    IN  [i \in 1..Len(hits) |->
            [type |-> hits[i].type, content |-> content, event |-> sel.npush + 1]]

\* a push that keeps what was not drained
pushKeepsUndrained(sel, type, content) ==
    [path |-> IF type = "OpenTag" THEN Append(sel.path, content)
              ELSE IF type \in {"CloseTag", "CloseTagIm"} THEN TagStackPop(sel.path)
              ELSE sel.path,
     attr |-> IF type = "TagAttribName" THEN content
              ELSE IF type \in {"TagAttribValue", "OpenTag"} THEN <<>>
              ELSE sel.attr,
     results |-> sel.results \o pathMatches(sel, type, content),
     npush |-> sel.npush + 1]

\* push( type, content): the positions follow the event, the matches of the
\* event replace those of the event before
push(sel, type, content) ==
    [path |-> IF type = "OpenTag" THEN Append(sel.path, content)
              ELSE IF type \in {"CloseTag", "CloseTagIm"} THEN TagStackPop(sel.path)
              ELSE sel.path,
     attr |-> IF type = "TagAttribName" THEN content
              ELSE IF type \in {"TagAttribValue", "OpenTag"} THEN <<>>
              ELSE sel.attr,
     results |-> pathMatches(sel, type, content),
     npush |-> sel.npush + 1]

\* a source that is one part without hook
NoSource == [split |-> 0, part |-> 2, hook |-> FALSE, suspended |-> FALSE]

\* no copy made, the printer alive
NoOther ==
    [made |-> FALSE, m_obj |-> "null", m_mt |-> "unset", state |-> "Init", stack |-> <<>>,
     of |-> [m_obj |-> "null", state |-> "Init", stack |-> <<>>]]
NoLifecycle == [destroyed |-> FALSE, crashed |-> FALSE, nullcall |-> "none"]
IdleLifecycle ==
    /\ other = NoOther
    /\ lifecycle = NoLifecycle

\* no path selection
IdleSelector ==
    /\ selector = XMLPathSelectStart
    /\ delivered = <<>>

\* no document under scan
IdleScanner ==
    /\ document = <<>>
    /\ xs = XMLScannerStart
    /\ events = <<>>
    /\ reparsed = <<>>
    /\ source = NoSource
    /\ IdleSelector

\* no encoding name under test
IdleEncoding ==
    /\ ident = <<>>
    /\ spelled = <<>>
    /\ nresp = 0
    /\ dest = NoDest
    /\ selected = NoSelected

\* no XMLPrinter around the printing object, no scanner
IdleWrapper ==
    /\ m_obj = "null"
    /\ m_mt = "unset"
    /\ ncreate = 0
    /\ forwarded = FALSE
    /\ IdleLifecycle
    /\ IdleScanner

Init ==
    /\ encoding \in Encodings
    /\ m_state = "Init"
    /\ m_tagstack = <<>>
    /\ buf = <<>>
    /\ ret = TRUE
    /\ call = NoCall
    /\ opened = <<>>
    /\ nops = 0
    /\ val = <<>>
    /\ out = NotCalled
    /\ fn = "none"
    /\ IdleEncoding
    /\ IdleWrapper

\* the open elements after something was printed inside the innermost one
NotBare(o) ==
    IF o = <<>> THEN o ELSE [o EXCEPT ![Len(o)] = [@ EXCEPT !.bare = FALSE]]

Apply(op, arg, res, o) ==
    /\ nops < MaxOps
    /\ nops' = nops + 1
    /\ call' = [op |-> op, arg |-> arg, state |-> m_state, stack |-> m_tagstack,
                buf |-> buf, opened |-> opened,
                prev |-> [op |-> call.op, arg |-> call.arg, state |-> call.state,
                          stack |-> call.stack, buf |-> call.buf, ret |-> ret]]
    /\ m_state' = res.state
    /\ m_tagstack' = res.stack
    /\ buf' = res.buf
    /\ ret' = res.ret
    /\ opened' = o
    /\ UNCHANGED <<encoding, notPrinterVars>>

PrintOpenTag(name) ==
    /\ UNCHANGED wrapperVars
    /\ Apply("printOpenTag", name, printOpenTag(m_state, m_tagstack, encoding, buf, name),
          Append(NotBare(opened), [name |-> name, bare |-> TRUE]))

PrintAttribute(name) ==
    /\ UNCHANGED wrapperVars
    /\ Apply("printAttribute", name, printAttribute(m_state, m_tagstack, encoding, buf, name),
          opened)

PrintValue(value) ==
    /\ UNCHANGED wrapperVars
    /\ Apply("printValue", value, printValue(m_state, m_tagstack, encoding, buf, value),
          IF m_state = "TagAttribute" THEN opened ELSE NotBare(opened))

PrintCloseTag(undef) ==
    LET res == printCloseTag(m_state, m_tagstack, buf, undef)
    IN  /\ UNCHANGED wrapperVars
        /\ Apply("printCloseTag", <<>>, res,
              IF res.ret /\ opened # <<>> THEN SubSeq(opened, 1, Len(opened) - 1)
              ELSE opened)

Next ==
    \/ \E name \in Names : PrintOpenTag(name)
    \/ \E name \in Names : PrintAttribute(name)
    \/ \E value \in Values : PrintValue(value)
    \/ \E undef \in Indeterminate : PrintCloseTag(undef)

Spec == Init /\ [][Next]_vars

(***************************************************************************)
(* XMLPrinter: the printing object is created by the first print call,     *)
(* with the IOCharset of the declared encoding, and every call is          *)
(* forwarded to it through the method table. Names and values are ASCII.   *)
(***************************************************************************)
\* declared encodings: "UTF-8", "utf16le", "isolatin", "ISO-8859-1", "latin1"
PrinterEncodings ==
    {<<85, 84, 70, 45, 56>>, NameUtf16le, NameIsoLatin,
     <<73, 83, 79, 45, 56, 56, 53, 57, 45, 49>>, <<108, 97, 116, 105, 110, 49>>}

InitXMLPrinter ==
    /\ encoding \in PrinterEncodings
    /\ m_state = "Init"
    /\ m_tagstack = <<>>
    /\ buf = <<>>
    /\ ret = TRUE
    /\ call = NoCall
    /\ opened = <<>>
    /\ nops = 0
    /\ val = <<>>
    /\ out = NotCalled
    /\ fn = "none"
    /\ IdleEncoding
    /\ m_obj = "null"
    /\ m_mt = "unset"
    /\ ncreate = 0
    /\ forwarded = FALSE
    /\ IdleLifecycle
    /\ IdleScanner

\* a print method of XMLPrinter: `if (!m_obj && !createPrinter()) return false;`
\* and the call through m_mt; res is what the printing object does with an empty
\* buffer and o the elements open after it
XMLPrinterCall(op, arg, res, o, undef) ==
    LET cp == IF m_obj = "null" THEN createPrinter(m_obj, m_mt, encoding, undef)
              ELSE [m_obj |-> m_obj, m_mt |-> m_mt, created |-> 0, ret |-> TRUE]
    IN  /\ m_obj' = cp.m_obj
        /\ m_mt' = cp.m_mt
        /\ ncreate' = ncreate + cp.created
        /\ forwarded' = cp.ret
        /\ UNCHANGED <<other, lifecycle>>
        /\ IF cp.ret
           THEN Apply(op, arg,
                      Result(res.state, res.stack,
                             buf \o IOCharsetText(cp.m_obj, res.buf), res.ret), o)
           ELSE Apply(op, arg, Result(m_state, m_tagstack, buf, FALSE), opened)

XMLPrinterPrintOpenTag(name, undef) ==
    XMLPrinterCall("printOpenTag", name,
                   printOpenTag(m_state, m_tagstack, encoding, <<>>, name),
                   Append(NotBare(opened), [name |-> name, bare |-> TRUE]), undef)

XMLPrinterPrintAttribute(name, undef) ==
    XMLPrinterCall("printAttribute", name,
                   printAttribute(m_state, m_tagstack, encoding, <<>>, name),
                   opened, undef)

XMLPrinterPrintValue(value, undef) ==
    XMLPrinterCall("printValue", value,
                   printValue(m_state, m_tagstack, encoding, <<>>, value),
                   IF m_state = "TagAttribute" THEN opened ELSE NotBare(opened), undef)

XMLPrinterPrintCloseTag(undefTag, undef) ==
    LET res == printCloseTag(m_state, m_tagstack, <<>>, undefTag)
    IN  XMLPrinterCall("printCloseTag", <<>>, res,
                       IF res.ret /\ opened # <<>> THEN SubSeq(opened, 1, Len(opened) - 1)
                       ELSE opened, undef)

NextXMLPrinter ==
    \/ \E name \in Names, undef \in BOOLEAN : XMLPrinterPrintOpenTag(name, undef)
    \/ \E name \in Names, undef \in BOOLEAN : XMLPrinterPrintAttribute(name, undef)
    \/ \E value \in Values, undef \in BOOLEAN : XMLPrinterPrintValue(value, undef)
    \/ \E undefTag \in Indeterminate, undef \in BOOLEAN :
           XMLPrinterPrintCloseTag(undefTag, undef)

SpecXMLPrinter == InitXMLPrinter /\ [][NextXMLPrinter]_vars

(***************************************************************************)
(* The escaping functions applied to one value.                            *)
(***************************************************************************)
\* characters of the values: NUL BS TAB LF CR " & ' < > a, U+00E9, U+20AC
Alphabet == {0, 8, 9, 10, 13, 34, 38, 39, 60, 62, 97, 233, 8364}
ValueInputs == UNION {[1..n -> Alphabet] : n \in 0..MaxValLen}

\* the value as the caller passes it: a string in the application character set
RECURSIVE Utf8(_)
Utf8(chars) == IF chars = <<>> THEN <<>> ELSE CharsetPrint(Head(chars)) \o Utf8(Tail(chars))

InitValue ==
    /\ encoding = <<85, 84, 70, 45, 56>>
    /\ m_state = "Init"
    /\ m_tagstack = <<>>
    /\ buf = <<>>
    /\ ret = TRUE
    /\ call = NoCall
    /\ opened = <<>>
    /\ nops = 0
    /\ val \in ValueInputs
    /\ out = NotCalled
    /\ fn = "none"
    /\ IdleEncoding
    /\ IdleWrapper

CallAttributeValue ==
    /\ out = NotCalled
    /\ out' = printToBufferAttributeValue(Utf8(val), <<>>)
    /\ fn' = "attribute"
    /\ UNCHANGED <<notValueVars, val>>

SpecAttributeValue == InitValue /\ [][CallAttributeValue]_vars

CallContent ==
    /\ out = NotCalled
    /\ out' = printToBufferContent(Utf8(val), <<>>)
    /\ fn' = "content"
    /\ UNCHANGED <<notValueVars, val>>

SpecContent == InitValue /\ [][CallContent]_vars

NextEscaping ==
    \/ CallAttributeValue
    \/ CallContent

SpecEscaping == InitValue /\ [][NextEscaping]_vars

(***************************************************************************)
(* Encoding names: an identifier and a respelling of it (letters in upper  *)
(* case, hyphens and spaces inserted) are given to parseEncoding and to    *)
(* the dispatch of createPrinter.                                          *)
(***************************************************************************)
MaxRespell == 2

\* plain spellings: "", the names createPrinter knows, "isolatin1", "iso88591"
\* and the unknown "latin1"
Identifiers ==
    {<<>>, NameUtf8, NameUtf16, NameUtf16be, NameUtf16le, NameUcs2, NameUcs2be,
     NameUcs2le, NameUcs4, NameUcs4be, NameUcs4le, NameIsoLatin, NameIso8859,
     NameIsoLatin \o <<49>>, NameIso8859 \o <<49>>, <<108, 97, 116, 105, 110, 49>>}

ToUpper(c) == IF c >= 97 /\ c <= 122 THEN c - 32 ELSE c
UpperAll(s) == [i \in 1..Len(s) |-> ToUpper(s[i])]
UpperAt(s, k) == [s EXCEPT ![k] = ToUpper(@)]
InsertAt(s, k, c) == SubSeq(s, 1, k - 1) \o <<c>> \o SubSeq(s, k, Len(s))

\* the spellings one step away: differing in letter case, hyphens and spaces only
Respellings(s) ==
    {UpperAll(s)} \cup {UpperAt(s, k) : k \in 1..Len(s)}
        \cup {InsertAt(s, k, c) : k \in 1..(Len(s) + 1), c \in {ChHyphen, ChSpace}}

InitEncoding ==
    /\ encoding = <<85, 84, 70, 45, 56>>
    /\ m_state = "Init"
    /\ m_tagstack = <<>>
    /\ buf = <<>>
    /\ ret = TRUE
    /\ call = NoCall
    /\ opened = <<>>
    /\ nops = 0
    /\ val = <<>>
    /\ out = NotCalled
    /\ fn = "none"
    /\ ident \in Identifiers
    /\ spelled = ident
    /\ nresp = 0
    /\ dest = NoDest
    /\ selected = NoSelected
    /\ IdleWrapper

Respell ==
    /\ nresp < MaxRespell
    /\ dest = NoDest
    /\ selected = NoSelected
    /\ \E s \in Respellings(spelled) : spelled' = s
    /\ nresp' = nresp + 1
    /\ UNCHANGED <<notEncVars, ident, dest, selected>>

\* parseEncoding(dest, src) for both spellings, and once more for its own result
CallParseEncoding ==
    /\ dest = NoDest
    /\ dest' = [called |-> TRUE, plain |-> parseEncoding(ident), respelled |-> parseEncoding(spelled),
                again |-> parseEncoding(parseEncoding(spelled))]
    /\ UNCHANGED <<notEncVars, ident, spelled, nresp, selected>>

\* createPrinter with each spelling as m_attributes.getEncoding()
CallCreatePrinter ==
    /\ selected = NoSelected
    /\ selected' = [called |-> TRUE, plain |-> IOCharset(parseEncoding(ident)),
                    respelled |-> IOCharset(parseEncoding(spelled))]
    /\ UNCHANGED <<notEncVars, ident, spelled, nresp, dest>>

NextEncoding ==
    \/ Respell
    \/ CallParseEncoding
    \/ CallCreatePrinter

SpecEncoding == InitEncoding /\ [][NextEncoding]_vars

\* the events of the whole source src, up to the first terminal one
RECURSIVE ScanAllFrom(_, _, _)
ScanAllFrom(src, xs0, ev) ==
    LET item == nextItem(src, xs0)
        all == Append(ev, [type |-> item.type, content |-> item.content,
                           msg |-> item.msg])
    IN  IF item.type \in {"Exit", "ErrorOccurred"} THEN all
        ELSE ScanAllFrom(src, item.xs, all)

ScanAll(src) == ScanAllFrom(src, XMLScannerStart, <<>>)

(***************************************************************************)
(* XMLScanner over documents made of tags and text.                        *)
(***************************************************************************)
MaxTokens == 4
MaxTerminal == 2

\* the tokens of the documents: <a> <b> </a> </b> <b/> and the text x; a token
\* of kind attr is an open tag with the attribute k="v"
Token(kind, name) == [kind |-> kind, name |-> name]
ScanTokens ==
    {Token("open", <<97>>), Token("open", <<98>>), Token("close", <<97>>),
     Token("close", <<98>>), Token("empty", <<98>>), Token("text", <<120>>)}

TokenText(t) ==
    CASE t.kind = "open" -> <<ChLt>> \o t.name \o <<ChGt>>
      [] t.kind = "close" -> <<ChLt, ChSlash>> \o t.name \o <<ChGt>>
      [] t.kind = "empty" -> <<ChLt>> \o t.name \o <<ChSlash, ChGt>>
      [] t.kind = "text" -> t.name
      [] t.kind = "piece" -> t.name
      [] t.kind = "entity" -> <<ChAmp>> \o t.name \o <<ChSemicolon>>
      [] t.kind = "attr" -> <<ChLt>> \o t.name \o <<ChSpace, 107, ChEq, ChQuot, 118, ChQuot, ChGt>>

\* the bytes of a document
RECURSIVE Input(_)
Input(d) == IF d = <<>> THEN <<>> ELSE TokenText(Head(d)) \o Input(Tail(d))

Documents == UNION {[1..n -> ScanTokens] : n \in 0..MaxTokens}

IsTerminal(e) == e.type \in {"Exit", "ErrorOccurred"}

InitScanner ==
    /\ encoding = <<85, 84, 70, 45, 56>>
    /\ m_state = "Init"
    /\ m_tagstack = <<>>
    /\ buf = <<>>
    /\ ret = TRUE
    /\ call = NoCall
    /\ opened = <<>>
    /\ nops = 0
    /\ val = <<>>
    /\ out = NotCalled
    /\ fn = "none"
    /\ IdleEncoding
    /\ m_obj = "null"
    /\ m_mt = "unset"
    /\ ncreate = 0
    /\ forwarded = FALSE
    /\ IdleLifecycle
    /\ document \in Documents
    /\ xs = XMLScannerStart
    /\ events = <<>>
    /\ reparsed = <<>>
    /\ source = NoSource
    /\ IdleSelector

\* one advance of the iterator; a terminal event is asked for again MaxTerminal
\* times at most
Advance ==
    /\ Len(SelectSeq(events, IsTerminal)) < MaxTerminal
    /\ LET item == nextItem(Input(document), xs)
       IN  /\ xs' = item.xs
           /\ events' = Append(events, [type |-> item.type, content |-> item.content,
                                        msg |-> item.msg])
    /\ UNCHANGED <<notScanVars, document, reparsed, source, selector, delivered>>

SpecScanner == InitScanner /\ [][Advance]_vars

(***************************************************************************)
(* Notions the properties are stated with.                                 *)
(***************************************************************************)
\* what the last call appended to the buffer
Written == SubSeq(buf, Len(call.buf) + 1, Len(buf))
AppendOnly == Len(buf) >= Len(call.buf) /\ SubSeq(buf, 1, Len(call.buf)) = call.buf
EndsWith(b, s) == Len(b) >= Len(s) /\ SubSeq(b, Len(b) - Len(s) + 1, Len(b)) = s

\* the prolog for the declared encoding
Prolog(enc) == HeaderHead \o enc \o HeaderTail

\* the substitutions of the attribute value table and of the content table
AttrSubst(c) ==
    CASE c = 60 -> <<38, 108, 116, 59>>
      [] c = 62 -> <<38, 103, 116, 59>>
      [] c = 39 -> <<38, 97, 112, 111, 115, 59>>
      [] c = 34 -> <<38, 113, 117, 111, 116, 59>>
      [] c = 38 -> <<38, 97, 109, 112, 59>>
      [] c = 8 -> <<38, 35, 56, 59>>
      [] c = 9 -> <<38, 35, 57, 59>>
      [] c = 10 -> <<38, 35, 49, 48, 59>>
      [] c = 13 -> <<38, 35, 49, 51, 59>>
      [] OTHER -> Utf8(<<c>>)

ContentSubst(c) ==
    CASE c = 60 -> <<38, 108, 116, 59>>
      [] c = 62 -> <<38, 103, 116, 59>>
      [] c = 38 -> <<38, 97, 109, 112, 59>>
      [] c = 8 -> <<38, 35, 56, 59>>
      [] OTHER -> Utf8(<<c>>)

RECURSIVE AttrEscaped(_)
AttrEscaped(chars) ==
    IF chars = <<>> THEN <<>> ELSE AttrSubst(Head(chars)) \o AttrEscaped(Tail(chars))

RECURSIVE ContentEscaped(_)
ContentEscaped(chars) ==
    IF chars = <<>> THEN <<>> ELSE ContentSubst(Head(chars)) \o ContentEscaped(Tail(chars))

\* the name of the innermost open element, and whether nothing but attributes
\* was printed since it was opened
OpenNames(o) == [i \in 1..Len(o) |-> o[i].name]
Innermost(o) == o[Len(o)]

(***************************************************************************)
(* Properties.                                                             *)
(***************************************************************************)

\* C1: on a fresh printer the first printOpenTag(name) leaves in the buffer exactly
\* the prolog for the declared encoding immediately followed by "<name", and a first
\* printValue(content) leaves exactly the prolog followed by the escaped content.
FirstOutputIsPrologThenElement ==
    /\ (call.op = "printOpenTag" /\ call.state = "Init")
          => buf = Prolog(encoding) \o <<ChLt>> \o call.arg
    /\ (call.op = "printValue" /\ call.state = "Init")
          => buf = Prolog(encoding) \o ContentEscaped(call.arg)

\* C2: printOpenTag(name) succeeds from every state: it returns true, closes a pending
\* open tag with a single ">" in state TagElement, appends "<name" as the last bytes,
\* pushes name (depth grows by one) and ends in state TagElement.
OpenTagSucceeds ==
    call.op = "printOpenTag" =>
        /\ ret = TRUE
        /\ m_state = "TagElement"
        /\ m_tagstack = call.stack \o <<call.arg>>
        /\ Len(m_tagstack) = Len(call.stack) + 1
        /\ AppendOnly
        /\ EndsWith(Written, <<ChLt>> \o call.arg)
        /\ call.state = "TagElement" => Written = <<ChGt, ChLt>> \o call.arg
        /\ call.state = "Content" => Written = <<ChLt>> \o call.arg

\* a nested element was opened while the tag of its parent was still open
OpenTagInTagElementReached ==
    /\ call.op = "printOpenTag"
    /\ call.state = "TagElement"
    /\ Len(m_tagstack) = 2
    /\ ret = TRUE

\* C3: in state TagElement, printAttribute(name) followed by printValue(value) both
\* return true, append exactly  name="escaped-value"  after one space, leave the tag
\* stack unchanged and end in state TagElement.
AttributePairPrinted ==
    (call.prev.op = "printAttribute" /\ call.prev.state = "TagElement"
        /\ call.op = "printValue") =>
        /\ call.prev.ret = TRUE
        /\ call.state = "TagAttribute"
        /\ ret = TRUE
        /\ buf = call.prev.buf \o <<ChSpace>> \o call.prev.arg \o <<ChEq, ChQuot>>
                    \o AttrEscaped(call.arg) \o <<ChQuot>>
        /\ m_tagstack = call.prev.stack
        /\ m_state = "TagElement"

\* C4: printAttribute(name) in a state other than TagElement returns false and leaves
\* the output state, the tag stack and the buffer as they were.
AttributeOutsideTagFails ==
    (call.op = "printAttribute" /\ call.state # "TagElement") =>
        /\ ret = FALSE
        /\ m_state = call.state
        /\ m_tagstack = call.stack
        /\ buf = call.buf

\* printAttribute was called while an attribute awaited its value
AttributeOutsideTagReached ==
    /\ call.op = "printAttribute"
    /\ call.state = "TagAttribute"
    /\ call.prev.op = "printAttribute"
    /\ call.prev.ret = TRUE
    /\ ret = FALSE

\* C5: printValue(value) in a state other than TagAttribute prints content and returns
\* true: it closes a pending open tag with ">", appends the content-escaped value,
\* ends in state Content and leaves the tag stack unchanged.
ContentValueSucceeds ==
    (call.op = "printValue" /\ call.state # "TagAttribute") =>
        /\ ret = TRUE
        /\ m_state = "Content"
        /\ m_tagstack = call.stack
        /\ AppendOnly
        /\ EndsWith(Written, ContentEscaped(call.arg))
        /\ call.state = "TagElement" => Written = <<ChGt>> \o ContentEscaped(call.arg)
        /\ call.state = "Content" => Written = ContentEscaped(call.arg)

\* C6: printCloseTag with a non-empty tag stack succeeds: in state TagElement it appends
\* "/>", in state Content "</topname>"; it pops one entry, ends in Content, returns true.
CloseTagSucceeds ==
    (call.op = "printCloseTag" /\ call.stack # <<>>
        /\ call.state \in {"TagElement", "Content"}) =>
        /\ ret = TRUE
        /\ m_state = "Content"
        /\ m_tagstack = SubSeq(call.stack, 1, Len(call.stack) - 1)
        /\ AppendOnly
        /\ call.state = "TagElement" => Written = <<ChSlash, ChGt>>
        /\ call.state = "Content"
              => Written = <<ChLt, ChSlash>> \o call.stack[Len(call.stack)] \o <<ChGt>>

\* C7: printCloseTag with an empty tag stack returns false and writes nothing, leaving
\* the output state and the tag stack unchanged.
CloseTagOnEmptyStackFails ==
    (call.op = "printCloseTag" /\ call.stack = <<>>) =>
        /\ ret = FALSE
        /\ buf = call.buf
        /\ m_state = call.state
        /\ m_tagstack = <<>>

\* C8: the tag stack holds, in order, the names of the printOpenTag calls not yet
\* matched by a successful printCloseTag, and every "</name>" written carries the
\* name of the innermost element open at that call.
WellNested ==
    /\ m_tagstack = OpenNames(opened)
    /\ (call.op = "printCloseTag" /\ Len(Written) >= 2
            /\ SubSeq(Written, 1, 2) = <<ChLt, ChSlash>>) =>
        /\ call.opened # <<>>
        /\ Written = <<ChLt, ChSlash>> \o Innermost(call.opened).name \o <<ChGt>>

RECURSIVE AttrEscapedForms(_)
AttrEscapedForms(chars) ==
    IF chars = <<>> THEN {<<>>}
    ELSE LET heads == IF Head(chars) = 0 THEN {<<38, 35, 48, 59>>, <<0>>, <<>>}
                      ELSE {AttrSubst(Head(chars))}
         IN  {h \o t : h \in heads, t \in AttrEscapedForms(Tail(chars))}

\* C10: for every attribute value each  < > ' " & BS TAB LF CR  is replaced by its
\* substitute, every other character is copied unchanged and the result is enclosed
\* in double quotes (whichever way a NUL itself is printed).
AttributeValueEscaped ==
    out # NotCalled =>
        \E x \in AttrEscapedForms(val) : out = <<ChQuot>> \o x \o <<ChQuot>>

\* the same for the values that hold no NUL
AttributeValueEscapedWithoutNul ==
    (out # NotCalled /\ \A i \in 1..Len(val) : val[i] # 0) =>
        out = <<ChQuot>> \o AttrEscaped(val) \o <<ChQuot>>

RECURSIVE ContentEscapedForms(_)
ContentEscapedForms(chars) ==
    IF chars = <<>> THEN {<<>>}
    ELSE LET heads == IF Head(chars) = 0 THEN {<<38, 35, 48, 59>>, <<0>>, <<>>}
                      ELSE {ContentSubst(Head(chars))}
         IN  {h \o t : h \in heads, t \in ContentEscapedForms(Tail(chars))}

\* C11: for every content value each  < > & BS  is replaced by its substitute, while
\* ' " TAB LF CR and every other character are copied unchanged (whichever way a NUL
\* itself is printed), and no table entry without a substitution string is printed.
ContentValueEscaped ==
    (out # NotCalled /\ fn = "content") =>
        /\ out \in ContentEscapedForms(val)
        /\ \A i \in 1..Len(out) : out[i] # NullStr[1]

\* the same for the values that hold no NUL
ContentValueEscapedWithoutNul ==
    (out # NotCalled /\ fn = "content" /\ \A i \in 1..Len(val) : val[i] # 0) =>
        out = ContentEscaped(val)

\* the escaped form of a value whose NUL characters are printed as "&#0;"
RECURSIVE EscapedWithNul(_, _)
EscapedWithNul(chars, attr) ==
    IF chars = <<>> THEN <<>>
    ELSE (IF Head(chars) = 0 THEN <<38, 35, 48, 59>>
          ELSE IF attr THEN AttrSubst(Head(chars)) ELSE ContentSubst(Head(chars)))
         \o EscapedWithNul(Tail(chars), attr)

\* C12: a NUL inside a printed value (attribute value or content) is printed as "&#0;"
\* and the characters after it are printed too.
NulPrintedAsReference ==
    /\ (out # NotCalled /\ fn = "attribute")
          => out = <<ChQuot>> \o EscapedWithNul(val, TRUE) \o <<ChQuot>>
    /\ (out # NotCalled /\ fn = "content")
          => out = EscapedWithNul(val, FALSE)

\* the beginning of a sequence
StartsWith(b, s) == Len(b) >= Len(s) /\ SubSeq(b, 1, Len(s)) = s

\* C13: encoding identifiers that differ only in letter case, hyphens and spaces
\* give the same parseEncoding result and select the same output charset in
\* createPrinter; parseEncoding applied to its own result changes nothing; the
\* empty identifier selects UTF-8, utf16 selects what utf16be selects (UTF-16
\* big endian), ucs2 what ucs2be selects and ucs4 what ucs4be selects.
EncodingNamesNormalised ==
    /\ dest.called =>
        /\ dest.respelled = dest.plain
        /\ dest.again = dest.respelled
    /\ selected.called =>
        /\ selected.respelled = selected.plain
        /\ ident = <<>> => selected.respelled = "UTF8"
        /\ ident \in {NameUtf16, NameUtf16be} => selected.respelled = "UTF16BE"
        /\ ident \in {NameUcs2, NameUcs2be} => selected.respelled = "UCS2BE"
        /\ ident \in {NameUcs4, NameUcs4be} => selected.respelled = "UCS4BE"

\* "utf8" respelled as "UTF-8" was normalised and selected a charset
RespelledEncodingSelected ==
    /\ ident = NameUtf8
    /\ spelled = <<85, 84, 70, 45, 56>>
    /\ dest.called
    /\ dest.respelled = NameUtf8
    /\ selected.called
    /\ selected.respelled = "UTF8"

\* C14: an identifier whose normal form is isolatin or iso8859 followed by a
\* code-page suffix ("ISO-8859-1", "iso-latin-1") is accepted by createPrinter
\* and selects the ISO-8859-1 charset.
IsoCodePageSuffixAccepted ==
    (/\ selected.called
     /\ StartsWith(ident, NameIsoLatin) \/ StartsWith(ident, NameIso8859))
    => /\ selected.plain = "IsoLatin1"
       /\ selected.respelled = "IsoLatin1"

\* the bare names isolatin and iso8859 are accepted in every spelling
IsoBareNameAccepted ==
    (selected.called /\ ident \in {NameIsoLatin, NameIso8859})
    => /\ selected.plain = "IsoLatin1"
       /\ selected.respelled = "IsoLatin1"

\* encoding identifiers no charset is defined for: "latin1"
UnrecognisedEncodings == {<<108, 97, 116, 105, 110, 49>>}
\* encoding identifiers of the defined charsets: "UTF-8", "utf16le", "isolatin",
\* "ISO-8859-1"
RecognisedEncodings ==
    {<<85, 84, 70, 45, 56>>, NameUtf16le, NameIsoLatin,
     <<73, 83, 79, 45, 56, 56, 53, 57, 45, 49>>}

\* C15: with an unrecognised encoding identifier no printing object is ever
\* created; every print call returns false and appends nothing to the buffer,
\* however many calls are made and in whatever order.
UnrecognisedEncodingPrintsNothing ==
    encoding \in UnrecognisedEncodings =>
        /\ m_obj = "null"
        /\ ncreate = 0
        /\ buf = <<>>
        /\ nops > 0 => (ret = FALSE /\ ~forwarded)

\* with the encoding "latin1", printCloseTag was called after printOpenTag and
\* printValue
UnrecognisedEncodingCalled ==
    /\ encoding \in UnrecognisedEncodings
    /\ nops >= 3
    /\ call.op = "printCloseTag"
    /\ call.prev.op \in {"printOpenTag", "printValue"}

\* C16: for every recognised encoding identifier the first print call creates the
\* printing object and is forwarded to it, its result being the object's (true
\* with `<name` pending for printOpenTag, false without output for
\* printAttribute on the new object); later calls do not create another object.
FirstCallCreatesAndForwards ==
    (encoding \in RecognisedEncodings /\ nops >= 1) =>
        /\ m_obj # "null"
        /\ ncreate = 1
        /\ nops = 1 =>
            /\ forwarded
            /\ call.op = "printOpenTag" => (ret = TRUE /\ m_state = "TagElement")
            /\ call.op = "printAttribute" => (ret = FALSE /\ buf = <<>>)

\* the names createPrinter accepts as they are: a printing object exists after
\* the first call and is the only one made
ObjectCreatedOnce ==
    (encoding \in RecognisedEncodings \ {<<73, 83, 79, 45, 56, 56, 53, 57, 45, 49>>}
     /\ nops >= 1)
    => (m_obj # "null" /\ ncreate = 1)

\* number of places of b where s begins
Occurrences(b, s) ==
    Cardinality({i \in 1..Len(b) : i + Len(s) - 1 <= Len(b)
                                   /\ SubSeq(b, i, i + Len(s) - 1) = s})

\* C17: the XML prolog is written exactly once per printer and only as the very
\* first bytes of the output: the first operation that produces output writes
\* it, state Init is never entered again afterwards, and no later operation
\* writes the prolog again.
PrologWrittenOnce ==
    /\ m_state = "Init" <=> buf = <<>>
    /\ buf # <<>> =>
        /\ StartsWith(buf, Prolog(encoding))
        /\ Occurrences(buf, HeaderHead) = 1
        /\ Occurrences(buf, HeaderTail) = 1
    /\ call.state # "Init" => m_state # "Init"
    /\ call.prev.state # "Init" => call.state # "Init"

\* after a call that printed nothing in state Init, a value and two open tags
\* were printed
PrologThenMoreOutput ==
    /\ nops >= 4
    /\ call.prev.state = "Content"
    /\ call.state = "TagElement"
    /\ m_state = "TagElement"
    /\ Len(opened) = 2
    /\ Len(buf) > Len(Prolog(encoding)) + 4

\* a name no tag has: the mark of a close token that does not fit
Misfit == <<0>>

\* the names of the elements open after the tokens of d, beginning with the open
\* elements stk; <<Misfit>> once a close token did not name the innermost one
RECURSIVE OpenAfter(_, _)
OpenAfter(d, stk) ==
    IF d = <<>> THEN stk
    ELSE IF Head(d).kind \in {"open", "attr"}
    THEN OpenAfter(Tail(d), Append(stk, Head(d).name))
    ELSE IF Head(d).kind \in {"empty", "text"} THEN OpenAfter(Tail(d), stk)
    ELSE IF stk # <<>> /\ stk[Len(stk)] = Head(d).name
    THEN OpenAfter(Tail(d), SubSeq(stk, 1, Len(stk) - 1))
    ELSE <<Misfit>>

OpenAfterPrefix(d, n) == OpenAfter(SubSeq(d, 1, n), <<>>)

\* a document with one root element, every element closed by its own name and
\* all text inside the root
WellFormed(d) ==
    /\ d # <<>>
    /\ d[1].kind \in {"open", "attr", "empty"}
    /\ OpenAfterPrefix(d, Len(d)) = <<>>
    /\ \A n \in 1..(Len(d) - 1) : OpenAfterPrefix(d, n) \notin {<<>>, <<Misfit>>}

\* a document that ends with elements still open
Unclosed(d) == OpenAfterPrefix(d, Len(d)) \notin {<<>>, <<Misfit>>}

EventsOfType(ev, types) == {i \in 1..Len(ev) : ev[i].type \in types}

\* the name of the element the close event ev[i] closes: its content for
\* CloseTag, the name of the tag opened last before it for CloseTagIm
ClosedName(ev, i) ==
    IF ev[i].type = "CloseTag" THEN ev[i].content
    ELSE LET before == {j \in EventsOfType(ev, {"OpenTag"}) : j < i}
         IN  IF before = {} THEN <<>>
             ELSE ev[CHOOSE j \in before : \A k \in before : k <= j].content

RECURSIVE ExpectedEvents(_, _)
ExpectedEvents(d, ev) ==
    LET t == Head(d)
        e(type, content) == [type |-> type, content |-> content, msg |-> ""]
    IN  IF d = <<>> THEN ev
        ELSE IF t.kind = "open" THEN ExpectedEvents(Tail(d), Append(ev, e("OpenTag", t.name)))
        ELSE IF t.kind = "close"
        THEN ExpectedEvents(Tail(d), Append(ev, e("CloseTag", t.name)))
        ELSE IF t.kind = "empty"
        THEN ExpectedEvents(Tail(d), ev \o <<e("OpenTag", t.name), e("CloseTagIm", <<>>)>>)
        ELSE IF ev # <<>> /\ ev[Len(ev)].type = "Content"
        THEN ExpectedEvents(Tail(d), [ev EXCEPT ![Len(ev)].content = @ \o t.name])
        ELSE ExpectedEvents(Tail(d), Append(ev, e("Content", t.name)))

\* the place of the first close token whose name differs from the innermost
\* open element
MismatchAt(d) ==
    {m \in 1..Len(d) : /\ OpenAfterPrefix(d, m) = <<Misfit>>
                       /\ OpenAfterPrefix(d, m - 1) \notin {<<>>, <<Misfit>>}}

RoundTripTokens ==
    {Token("open", <<97>>), Token("open", <<98>>), Token("attr", <<98>>),
     Token("close", <<97>>), Token("close", <<98>>), Token("empty", <<98>>),
     Token("text", <<120>>), Token("text", <<ChAmp, 97, 109, 112, ChSemicolon>>)}

RoundTripDocuments ==
    {d \in UNION {[1..n -> RoundTripTokens] : n \in 1..MaxTokens} : WellFormed(d)}

InitRoundTrip ==
    /\ encoding = <<85, 84, 70, 45, 56>>
    /\ m_state = "Init"
    /\ m_tagstack = <<>>
    /\ buf = <<>>
    /\ ret = TRUE
    /\ call = NoCall
    /\ opened = <<>>
    /\ nops = 0
    /\ val = <<>>
    /\ out = NotCalled
    /\ fn = "none"
    /\ IdleEncoding
    /\ m_obj = "null"
    /\ m_mt = "unset"
    /\ ncreate = 0
    /\ forwarded = FALSE
    /\ IdleLifecycle
    /\ document \in RoundTripDocuments
    /\ xs = XMLScannerStart
    /\ events = <<>>
    /\ reparsed = <<>>
    /\ source = NoSource
    /\ IdleSelector

\* the print method for an event, on the printing object as it is
PrintItem(item, undef) ==
    CASE item.type = "OpenTag" ->
            printOpenTag(m_state, m_tagstack, encoding, buf, item.content)
      [] item.type = "TagAttribName" ->
            printAttribute(m_state, m_tagstack, encoding, buf, item.content)
      [] item.type \in {"TagAttribValue", "Content"} ->
            printValue(m_state, m_tagstack, encoding, buf, item.content)
      [] item.type \in {"CloseTag", "CloseTagIm"} ->
            printCloseTag(m_state, m_tagstack, buf, undef)

PrintOp(item) ==
    CASE item.type = "OpenTag" -> "printOpenTag"
      [] item.type = "TagAttribName" -> "printAttribute"
      [] item.type \in {"TagAttribValue", "Content"} -> "printValue"
      [] item.type \in {"CloseTag", "CloseTagIm"} -> "printCloseTag"

\* the output behind the prolog
AfterProlog(b) ==
    IF StartsWith(b, Prolog(encoding))
    THEN SubSeq(b, Len(Prolog(encoding)) + 1, Len(b))
    ELSE b

\* one advance of the scanner and the print call for its event; at a terminal
\* event nothing is printed and the output is scanned
RoundTripStep(undef) ==
    LET item == nextItem(Input(document), xs)
        event == [type |-> item.type, content |-> item.content, msg |-> item.msg]
    IN  /\ Len(SelectSeq(events, IsTerminal)) = 0
        /\ xs' = item.xs
        /\ events' = Append(events, event)
        /\ IF IsTerminal(event)
           THEN /\ reparsed' = ScanAll(AfterProlog(buf))
                /\ UNCHANGED printerVars
           ELSE LET res == PrintItem(item, undef)
                IN  /\ nops < MaxOps
                    /\ nops' = nops + 1
                    /\ call' = [op |-> PrintOp(item), arg |-> item.content,
                                state |-> m_state, stack |-> m_tagstack, buf |-> buf,
                                opened |-> opened,
                                prev |-> [op |-> call.op, arg |-> call.arg,
                                          state |-> call.state, stack |-> call.stack,
                                          buf |-> call.buf, ret |-> ret]]
                    /\ m_state' = res.state
                    /\ m_tagstack' = res.stack
                    /\ buf' = res.buf
                    /\ ret' = res.ret
                    /\ UNCHANGED <<encoding, opened, reparsed>>
        /\ UNCHANGED <<valueVars, encVars, wrapperVars, document, source, selector,
                       delivered>>

NextRoundTrip == \E undef \in Indeterminate : RoundTripStep(undef)

SpecRoundTrip == InitRoundTrip /\ [][NextRoundTrip]_vars

\* C18: the events of a well-formed document, given to printOpenTag (OpenTag),
\* printAttribute (TagAttribName), printValue (TagAttribValue, Content) and
\* printCloseTag (CloseTag, CloseTagIm) of a printer with the same encoding,
\* print after the prolog a document whose own events are the original ones.
RoundTripIdentity ==
    (events # <<>> /\ events[Len(events)].type = "Exit") => reparsed = events

\* C21: once the scanner has given Exit or ErrorOccurred, every further advance
\* gives the same event type again, ErrorOccurred with the same message, and no
\* OpenTag, Content, attribute or close event follows it.
TerminalEventsAbsorbing ==
    \A i \in 1..Len(events) : \A j \in (i + 1)..Len(events) :
        IsTerminal(events[i]) =>
            /\ events[j].type = events[i].type
            /\ events[j].msg = events[i].msg
            /\ events[j].content = events[i].content

\* after an OpenTag the scanner gave ErrorOccurred and was advanced again
TerminalEventRepeated ==
    /\ Len(events) >= 3
    /\ events[1].type = "OpenTag"
    /\ events[Len(events) - 1].type = "ErrorOccurred"
    /\ events[Len(events)].type = "ErrorOccurred"

(***************************************************************************)
(* Chunkwise processing: the input is split in two parts. The source over  *)
(* the first part calls its hook at the end (or gives 0 without a hook);   *)
(* the caller then sets the source over the second part and goes on.       *)
(***************************************************************************)
MaxChunkTokens == 3

\* <a k="v"> </a> <b/> and the texts x and &amp;
ChunkTokens ==
    {Token("attr", <<97>>), Token("close", <<97>>), Token("empty", <<98>>),
     Token("text", <<120>>), Token("text", <<ChAmp, 97, 109, 112, ChSemicolon>>)}

ChunkDocuments == UNION {[1..n -> ChunkTokens] : n \in 0..MaxChunkTokens}

\* the part of the input the source is over
Chunk(d, src) ==
    IF src.part = 1 THEN SubSeq(Input(d), 1, src.split)
    ELSE SubSeq(Input(d), src.split + 1, Len(Input(d)))

InitChunked ==
    /\ encoding = <<85, 84, 70, 45, 56>>
    /\ m_state = "Init"
    /\ m_tagstack = <<>>
    /\ buf = <<>>
    /\ ret = TRUE
    /\ call = NoCall
    /\ opened = <<>>
    /\ nops = 0
    /\ val = <<>>
    /\ out = NotCalled
    /\ fn = "none"
    /\ IdleEncoding
    /\ m_obj = "null"
    /\ m_mt = "unset"
    /\ ncreate = 0
    /\ forwarded = FALSE
    /\ IdleLifecycle
    /\ document \in ChunkDocuments
    /\ events = <<>>
    /\ reparsed = <<>>
    /\ IdleSelector
    /\ \E k \in 0..Len(Input(document)), hook \in BOOLEAN :
        /\ source = [split |-> k, part |-> 1, hook |-> hook, suspended |-> FALSE]
        /\ xs = [XMLScannerStart EXCEPT !.eom = hook]

\* one advance of the iterator, up to the first terminal event; when the source
\* calls its hook no event is given and the scanner keeps its members
AdvanceChunked ==
    /\ ~source.suspended
    /\ Len(SelectSeq(events, IsTerminal)) = 0
    /\ LET item == nextItem(Chunk(document, source), xs)
       IN  /\ xs' = item.xs
           /\ IF item.type = "Suspended"
              THEN /\ source' = [source EXCEPT !.suspended = TRUE]
                   /\ UNCHANGED events
              ELSE /\ events' = Append(events, [type |-> item.type,
                                               content |-> item.content,
                                               msg |-> item.msg])
                   /\ UNCHANGED source
    /\ UNCHANGED <<notScanVars, document, reparsed, selector, delivered>>

\* a setSource that starts the scanner anew, keeping the tag stack only
setSourceForgetsState(xs0) == [XMLScannerStart EXCEPT !.stack = xs0.stack]

\* setSource: the scanner reads on at the beginning of a source without hook
setSource(xs0) == [xs0 EXCEPT !.pos = 1, !.eom = FALSE]

\* the caller passes the second part and continues the iteration
SetSource ==
    /\ source.suspended
    /\ source' = [source EXCEPT !.part = 2, !.suspended = FALSE]
    /\ xs' = setSource(xs)
    /\ UNCHANGED <<notScanVars, document, events, reparsed, selector, delivered>>

NextChunked ==
    \/ AdvanceChunked
    \/ SetSource

SpecChunked == InitChunked /\ [][NextChunked]_vars

IsPrefix(a, b) == Len(a) <= Len(b) /\ a = SubSeq(b, 1, Len(a))

\* C22: for every input and every split of it in two chunks, the scanner over a
\* source that suspends at the end of the first chunk and is resumed with the
\* second gives the events (types and contents) of the scanner over the whole
\* input; without a hook the end of the first chunk is the end of the data.
ChunkedScanEqualsWhole ==
    /\ source.hook =>
        LET whole == ScanAll(Input(document))
        IN  /\ IsPrefix(events, whole)
            /\ SelectSeq(events, IsTerminal) # <<>> => events = whole
    /\ ~source.hook =>
        /\ source.part = 1
        /\ ~source.suspended
        /\ IsPrefix(events, ScanAll(SubSeq(Input(document), 1, source.split)))

\* `<a k="v">&amp;</a>` split inside the entity reference was read up to Exit
ChunkedScanResumed ==
    /\ source.hook
    /\ source.part = 2
    /\ source.split = 12
    /\ document = <<Token("attr", <<97>>),
                    Token("text", <<ChAmp, 97, 109, 112, ChSemicolon>>),
                    Token("close", <<97>>)>>
    /\ events # <<>>
    /\ events[Len(events)].type = "Exit"
    /\ Len(events) = 6

(***************************************************************************)
(* XMLScanner over open tags with attributes, put together from pieces so  *)
(* that names without value and values without name occur.                 *)
(***************************************************************************)
MaxPieces == 5

\* the pieces ` k=`, `"v"`, `/>`, `>` and `<b`
AttribPieces ==
    {Token("piece", <<ChSpace, 107, ChEq>>), Token("piece", <<ChQuot, 118, ChQuot>>),
     Token("piece", <<ChSlash, ChGt>>), Token("piece", <<ChGt>>),
     Token("piece", <<ChLt, 98>>)}

\* `<a` and up to MaxPieces pieces
AttribDocuments ==
    {<<Token("piece", <<ChLt, 97>>)>> \o d :
        d \in UNION {[1..n -> AttribPieces] : n \in 0..MaxPieces}}

InitAttributes ==
    /\ encoding = <<85, 84, 70, 45, 56>>
    /\ m_state = "Init"
    /\ m_tagstack = <<>>
    /\ buf = <<>>
    /\ ret = TRUE
    /\ call = NoCall
    /\ opened = <<>>
    /\ nops = 0
    /\ val = <<>>
    /\ out = NotCalled
    /\ fn = "none"
    /\ IdleEncoding
    /\ m_obj = "null"
    /\ m_mt = "unset"
    /\ ncreate = 0
    /\ forwarded = FALSE
    /\ IdleLifecycle
    /\ document \in AttribDocuments
    /\ xs = XMLScannerStart
    /\ events = <<>>
    /\ reparsed = <<>>
    /\ source = NoSource
    /\ IdleSelector

SpecAttributes == InitAttributes /\ [][Advance]_vars

\* C23: between an OpenTag event and the close event of the element (or the
\* next OpenTag or Content) the TagAttribName and TagAttribValue events
\* alternate strictly: the first attribute event behind an OpenTag is a
\* TagAttribName, every TagAttribName is directly followed by one
\* TagAttribValue and every TagAttribValue directly follows a TagAttribName
\* (an input that breaks off behind a name gives ErrorOccurred there).
AttributeEventsAlternate ==
    \A i \in 1..Len(events) :
        /\ events[i].type = "TagAttribName" =>
            /\ i > 1
            /\ events[i - 1].type \in {"OpenTag", "TagAttribValue"}
            /\ i < Len(events) =>
                events[i + 1].type \in {"TagAttribValue", "ErrorOccurred"}
        /\ events[i].type = "TagAttribValue" =>
            /\ i > 1
            /\ events[i - 1].type = "TagAttribName"

\* `<a k="v" k="v"/>` was read: two attributes, then CloseTagIm and Exit
TwoAttributesScanned ==
    /\ Len(events) = 7
    /\ events[1].type = "OpenTag"
    /\ events[2].type = "TagAttribName"
    /\ events[3].type = "TagAttribValue"
    /\ events[4].type = "TagAttribName"
    /\ events[5].type = "TagAttribValue"
    /\ events[6].type = "CloseTagIm"
    /\ events[7].type = "Exit"

(***************************************************************************)
(* XMLScanner over entity references, in content (`<a>...</a>`) and in an  *)
(* attribute value (`<a k="..."/>`).                                       *)
(***************************************************************************)
MaxReferences == 3

\* &lt; &gt; &amp; &apos; &quot; the unknown &xy; and the text x
ReferenceTokens ==
    {Token("entity", <<108, 116>>), Token("entity", <<103, 116>>),
     Token("entity", <<97, 109, 112>>), Token("entity", <<97, 112, 111, 115>>),
     Token("entity", <<113, 117, 111, 116>>), Token("entity", <<120, 121>>),
     Token("text", <<120>>)}

ContentOpen == Token("piece", <<ChLt, 97, ChGt>>)
ContentClose == Token("close", <<97>>)
ValueOpen == Token("piece", <<ChLt, 97, ChSpace, 107, ChEq, ChQuot>>)
ValueClose == Token("piece", <<ChQuot, ChSlash, ChGt>>)

ReferenceDocuments ==
    {<<ContentOpen>> \o d \o <<ContentClose>> :
        d \in UNION {[1..n -> ReferenceTokens] : n \in 0..MaxReferences}}
    \cup {<<ValueOpen>> \o d \o <<ValueClose>> :
        d \in UNION {[1..n -> ReferenceTokens] : n \in 0..MaxReferences}}

InitEntities ==
    /\ encoding = <<85, 84, 70, 45, 56>>
    /\ m_state = "Init"
    /\ m_tagstack = <<>>
    /\ buf = <<>>
    /\ ret = TRUE
    /\ call = NoCall
    /\ opened = <<>>
    /\ nops = 0
    /\ val = <<>>
    /\ out = NotCalled
    /\ fn = "none"
    /\ IdleEncoding
    /\ m_obj = "null"
    /\ m_mt = "unset"
    /\ ncreate = 0
    /\ forwarded = FALSE
    /\ IdleLifecycle
    /\ document \in ReferenceDocuments
    /\ xs = XMLScannerStart
    /\ events = <<>>
    /\ reparsed = <<>>
    /\ source = NoSource
    /\ IdleSelector

SpecEntities == InitEntities /\ [][Advance]_vars

\* the character a predefined entity stands for, 0 for another name
Predefined(name) ==
    IF name = <<108, 116>> THEN 60
    ELSE IF name = <<103, 116>> THEN 62
    ELSE IF name = <<97, 109, 112>> THEN 38
    ELSE IF name = <<97, 112, 111, 115>> THEN 39
    ELSE IF name = <<113, 117, 111, 116>> THEN 34
    ELSE 0

\* the text the references and texts d stand for
RECURSIVE Expanded(_)
Expanded(d) ==
    IF d = <<>> THEN <<>>
    ELSE (IF Head(d).kind = "entity" THEN <<Predefined(Head(d).name)>> ELSE Head(d).name)
         \o Expanded(Tail(d))

\* C24: in content and in attribute values a reference to one of the entities
\* lt, gt, amp, apos, quot gives the one character it stands for in the event
\* content, not the text of the reference (`<a>&amp;&lt;</a>` gives Content
\* `&<`); a reference to a name that is not in the map gives ErrorOccurred.
EntitiesExpanded ==
    LET parts == SubSeq(document, 2, Len(document) - 1)
        kind == IF document[1] = ContentOpen THEN "Content" ELSE "TagAttribValue"
        known == \A i \in 1..Len(parts) :
                    parts[i].kind = "entity" => Predefined(parts[i].name) # 0
    IN  IF known
        THEN /\ EventsOfType(events, {"ErrorOccurred"}) = {}
             /\ \A i \in EventsOfType(events, {kind}) : events[i].content = Expanded(parts)
             /\ (EventsOfType(events, {"Exit"}) # {} /\ parts # <<>>)
                    => Cardinality(EventsOfType(events, {kind})) = 1
        ELSE /\ EventsOfType(events, {kind, "Exit", "CloseTag", "CloseTagIm"}) = {}
             /\ \A i \in EventsOfType(events, {"ErrorOccurred"}) :
                    events[i].msg = "UnknownEntity"

\* `<a>&amp;&lt;</a>` was read up to Exit
ReferencesScanned ==
    /\ document = <<ContentOpen, Token("entity", <<97, 109, 112>>),
                    Token("entity", <<108, 116>>), ContentClose>>
    /\ Len(events) = 4
    /\ events[2].type = "Content"
    /\ events[2].content = <<38, 60>>
    /\ events[4].type = "Exit"

(***************************************************************************)
(* XMLPathSelect fed by the scanner: the caller pushes each event of the   *)
(* document and iterates on the matches of the push.                       *)
(***************************************************************************)
MaxPathPieces == 4

\* the pieces behind the `<a` of the root: k="v" s="w" > /> <b
PathPieces ==
    {Token("piece", <<ChSpace, 107, ChEq, ChQuot, 118, ChQuot>>),
     Token("piece", <<ChSpace, 115, ChEq, ChQuot, 119, ChQuot>>),
     Token("piece", <<ChGt>>), Token("piece", <<ChSlash, ChGt>>),
     Token("piece", <<ChLt, 98>>)}

PathDocuments ==
    {<<Token("piece", <<ChLt, 97>>)>> \o d :
        d \in UNION {[1..n -> PathPieces] : n \in 0..MaxPathPieces}}

InitPathSelect ==
    /\ encoding = <<85, 84, 70, 45, 56>>
    /\ m_state = "Init"
    /\ m_tagstack = <<>>
    /\ buf = <<>>
    /\ ret = TRUE
    /\ call = NoCall
    /\ opened = <<>>
    /\ nops = 0
    /\ val = <<>>
    /\ out = NotCalled
    /\ fn = "none"
    /\ IdleEncoding
    /\ m_obj = "null"
    /\ m_mt = "unset"
    /\ ncreate = 0
    /\ forwarded = FALSE
    /\ IdleLifecycle
    /\ document \in PathDocuments
    /\ xs = XMLScannerStart
    /\ events = <<>>
    /\ reparsed = <<>>
    /\ source = NoSource
    /\ IdleSelector

\* the scanner is advanced and the event is pushed: selector.push( ci->type(), elem)
Push ==
    /\ \A i \in 1..Len(events) : ~IsTerminal(events[i])
    /\ LET item == nextItem(Input(document), xs)
       IN  /\ xs' = item.xs
           /\ events' = Append(events, [type |-> item.type, content |-> item.content,
                                        msg |-> item.msg])
           /\ selector' = push(selector, item.type, item.content)
    /\ UNCHANGED <<notScanVars, document, reparsed, source, delivered>>

\* the caller takes the match under the iterator and increments it: *itr, itr++
Drain ==
    /\ selector.results # <<>>
    /\ delivered' = Append(delivered, [match |-> Head(selector.results),
                                       at |-> selector.npush])
    /\ selector' = [selector EXCEPT !.results = Tail(@)]
    /\ UNCHANGED <<notScanVars, document, xs, events, reparsed, source>>

NextPathSelect ==
    \/ Push
    \/ Drain

SpecPathSelect == InitPathSelect /\ [][NextPathSelect]_vars

\* the elements open behind the first n events
RECURSIVE OpenPath(_, _)
OpenPath(ev, n) ==
    IF n = 0 THEN <<>>
    ELSE LET before == OpenPath(ev, n - 1)
         IN  IF ev[n].type = "OpenTag" THEN Append(before, ev[n].content)
             ELSE IF ev[n].type \in {"CloseTag", "CloseTagIm"} /\ before # <<>>
                  THEN SubSeq(before, 1, Len(before) - 1)
             ELSE before

\* the types event i is selected with: the value of attribute k of the root a
\* gives 1 and 3, the value of its attribute s gives 2
ProducedTypes(i) ==
    IF /\ i > 1
       /\ events[i].type = "TagAttribValue"
       /\ events[i - 1].type = "TagAttribName"
       /\ OpenPath(events, i - 1) = <<<<97>>>>
    THEN IF events[i - 1].content = <<107>> THEN <<1, 3>>
         ELSE IF events[i - 1].content = <<115>> THEN <<2>>
         ELSE <<>>
    ELSE <<>>

\* the matches the caller got since the last push
DeliveredOfLastPush == SelectSeq(delivered, LAMBDA d : d.at = selector.npush)

\* C25: behind push(E_i) the matches drained so far and those still to drain
\* are together exactly the matches of E_i, in the order of registration; a
\* push discards what was not drained, so every match is delivered before the
\* push of the next event and the matches of E_i precede those of E_i+1.
PathMatchLifetime ==
    /\ selector.npush = Len(events)
    /\ \A i \in 1..Len(selector.results) :
          /\ selector.results[i].event = selector.npush
          /\ selector.results[i].content = events[selector.npush].content
    /\ \A i \in 1..Len(delivered) :
          /\ delivered[i].match.event = delivered[i].at
          /\ delivered[i].match.content = events[delivered[i].at].content
          /\ \A j \in 1..Len(delivered) :
                i < j => delivered[i].match.event <= delivered[j].match.event
    /\ selector.npush > 0 =>
          [i \in 1..Len(DeliveredOfLastPush) |-> DeliveredOfLastPush[i].match.type]
              \o [i \in 1..Len(selector.results) |-> selector.results[i].type]
            = ProducedTypes(selector.npush)
    /\ \A i \in 1..Len(events) :
          Len(SelectSeq(delivered, LAMBDA d : d.match.event = i))
            <= Len(ProducedTypes(i))

\* matches of two events were delivered and a match of an event before the
\* last one was never drained
MatchesOfTwoEventsDrained ==
    /\ Len(delivered) >= 2
    /\ delivered[1].at < delivered[Len(delivered)].at
    /\ selector.results # <<>>
    /\ \E i \in 1..(selector.npush - 1) :
          Len(SelectSeq(delivered, LAMBDA d : d.match.event = i))
            < Len(ProducedTypes(i))

\* C26: no attribute is left dangling in the output: a call made in state
\* TagAttribute that is not printValue writes nothing and leaves the state
\* alone, and printValue in state TagAttribute writes a quoted value, so the
\* ` name=` of printAttribute is followed by its value before any `>`, `/>`
\* or `<`.
NoDanglingAttribute ==
    call.state = "TagAttribute" =>
        IF call.op = "printValue"
        THEN /\ AppendOnly
             /\ LET value == SelectSeq(Written, LAMBDA c : c # ChSpace)
                IN  /\ Len(value) >= 2
                    /\ value[1] = ChQuot
                    /\ value[Len(value)] = ChQuot
        ELSE /\ buf = call.buf
             /\ m_state = "TagAttribute"

\* the change of the tag-stack depth a call has to make: a successful
\* printOpenTag adds one, a successful printCloseTag takes one, nothing else
\* changes it
DepthChange ==
    IF call.op = "printOpenTag" /\ ret THEN 1
    ELSE IF call.op = "printCloseTag" /\ ret THEN -1
    ELSE 0

copyObj(obj, this, undef) ==
    IF obj = "null" THEN undef
    ELSE [crashed |-> FALSE, state |-> this.state, stack |-> this.stack]

\* what reading the members through a null pointer can give: the program
\* ends, or the new object holds whatever was read
CopyOutcomes ==
    {[crashed |-> TRUE, state |-> "Init", stack |-> <<>>]}
    \cup {[crashed |-> FALSE, state |-> s, stack |-> k] :
              s \in {"Init", "Content", "TagAttribute", "TagElement"},
              k \in {<<>>, <<<<97>>>>}}

\* XMLPrinter( const XMLPrinter& o): m_mt(o.m_mt), m_obj(0) and then
\* m_obj = m_mt.m_copy( m_obj) with the m_obj of the new printer; o_this is
\* the printing object of o, which the constructor does not look at
XMLPrinterCopy(o_obj, o_mt, o_this, undef) ==
    LET mt == o_mt
        obj == "null"
    IN  IF mt = "unset"
        THEN [m_obj |-> "null", m_mt |-> mt, state |-> "Init", stack |-> <<>>,
              crashed |-> TRUE, nullcall |-> "m_copy"]
        ELSE LET rt == copyObj(obj, undef, undef)
             IN  [m_obj |-> IF rt.crashed THEN "null" ELSE mt, m_mt |-> mt,
                  state |-> rt.state, stack |-> rt.stack,
                  crashed |-> rt.crashed, nullcall |-> "none"]

\* ~XMLPrinter(): m_mt.m_del( m_obj)
XMLPrinterDestroy(obj, mt) ==
    IF mt = "unset" THEN [crashed |-> TRUE, nullcall |-> "m_del"]
    ELSE [crashed |-> FALSE, nullcall |-> "none"]

\* print calls made on a printer before it is copied or destroyed, at most
MaxLifecycleOps == 3

\* the printer is neither destroyed nor has the program ended
Alive == ~lifecycle.destroyed /\ ~lifecycle.crashed

\* a further print call is made
Printing == Alive /\ nops < MaxLifecycleOps

\* XMLPrinter copy( printer);
Copy(undef) ==
    /\ Alive
    /\ ~other.made
    /\ LET c == XMLPrinterCopy(m_obj, m_mt, [state |-> m_state, stack |-> m_tagstack],
                               undef)
       IN  /\ other' = [made |-> TRUE, m_obj |-> c.m_obj, m_mt |-> c.m_mt,
                        state |-> c.state, stack |-> c.stack,
                        of |-> [m_obj |-> m_obj, state |-> m_state,
                                stack |-> m_tagstack]]
           /\ lifecycle' = [lifecycle EXCEPT !.crashed = c.crashed,
                                             !.nullcall = c.nullcall]
    /\ UNCHANGED <<printerVars, valueVars, encVars, scanVars, m_obj, m_mt, ncreate,
                   forwarded>>

\* the printer goes out of scope
Destroy ==
    /\ Alive
    /\ LET d == XMLPrinterDestroy(m_obj, m_mt)
       IN  lifecycle' = [destroyed |-> TRUE, crashed |-> d.crashed,
                         nullcall |-> d.nullcall]
    /\ UNCHANGED <<printerVars, valueVars, encVars, scanVars, m_obj, m_mt, ncreate,
                   forwarded, other>>

NextLifecycle ==
    \/ Printing /\ \E name \in Names, undef \in BOOLEAN : XMLPrinterPrintOpenTag(name, undef)
    \/ Printing /\ \E name \in Names, undef \in BOOLEAN : XMLPrinterPrintAttribute(name, undef)
    \/ Printing /\ \E value \in Values, undef \in BOOLEAN : XMLPrinterPrintValue(value, undef)
    \/ Printing /\ \E undefTag \in Indeterminate, undef \in BOOLEAN :
                       XMLPrinterPrintCloseTag(undefTag, undef)
    \/ \E undef \in CopyOutcomes : Copy(undef)
    \/ Destroy

SpecLifecycle == InitXMLPrinter /\ [][NextLifecycle]_vars

\* C28: a printer copy-constructed from a printer that has printed is a
\* printer of its own with the output state and the tag stack the original
\* had when it was copied (the print methods being functions of these, both
\* then answer the same calls alike), and calls on the original do not change
\* it.
CopyEqualsOriginal ==
    (other.made /\ other.of.m_obj # "null") =>
        /\ ~lifecycle.crashed
        /\ lifecycle.nullcall = "none"
        /\ other.m_obj = other.of.m_obj
        /\ other.state = other.of.state
        /\ other.stack = other.of.stack

\* C29: no call goes through a method-table entry that is 0: neither m_del
\* when the printer is destroyed nor m_copy when it is copied, whether or not
\* a print call has created the printing object and also when the encoding
\* was rejected.
NoNullMethodCalled == lifecycle.nullcall = "none"

====
